---------------------------- MODULE Spec2Model ----------------------------
(***************************************************************************)
(* YouTube OAuth2 token lifecycle and upload orchestration of              *)
(* final_project/backend/api/youtube_routes.py.                            *)
(*                                                                         *)
(* A route handler runs without yielding once its body has been read (its  *)
(* outbound calls are blocking `requests`/googleapiclient calls), so that  *)
(* part is one action.  upload and upload-url receive the caller document  *)
(* from get_current_user and then yield at `await request.json()`: the     *)
(* action Arrive is that read, `awaiting` holds the documents read by      *)
(* requests whose body has not come yet, and the handler action runs with  *)
(* one of them.  The clock moves during the blocking calls: a handler      *)
(* takes the values it reads at its expiry test, at its refresh write and  *)
(* at its video write.  The outcome of every outbound call (token          *)
(* endpoint, channel lookup, provider insert, store read/write) is an      *)
(* input of the action, drawn from the outcomes the collaborator can       *)
(* produce.                                                                *)
(*                                                                         *)
(* Requests served by different workers of the server interleave at their  *)
(* store and provider calls: SpecConcurrent runs the handlers step by      *)
(* step with the requests in `inflight`.  A step is the landing of one     *)
(* store read or write, or one read of the clock with the lines that       *)
(* follow it up to the next store call; a request holds what it has read   *)
(* (user document, video document, clock) until the write that uses it     *)
(* lands.                                                                  *)
(*                                                                         *)
(* Python values: in the user documents a missing key / None string is    *)
(* the value None below, a missing number is 0 (the code reads them with   *)
(* .get(key, 0) or tests their truthiness).  In a request body and in the  *)
(* title of a video document a key that is not there is Absent and a null  *)
(* is None: dict.get gives its default for the first only.                 *)
(***************************************************************************)
EXTENDS Integers, Sequences, FiniteSets, TLC

VARIABLES users, videos, keyword_sets, files, now, last, inflight, refresh_log, awaiting

vars == <<users, videos, keyword_sets, files, now, last, inflight, refresh_log, awaiting>>

-----------------------------------------------------------------------------
(* Bounds of the model *)

MaxTime == 3
MaxKeywords == 31
MaxTags == 31
MaxListLen == 4
MaxRequests == 2

(* Program constants *)

TagLimit == 30
DescKeywords == 5

-----------------------------------------------------------------------------
(* Python values *)

None == "None"

Absent == "Absent"

Truthy(s) == s # None /\ s # ""

(* body.get(key) and body.get(key, default) *)
Get(value) == IF value = Absent THEN None ELSE value

GetOr(value, default) == IF value = Absent THEN default ELSE value

(* s[:n] *)
Take(s, n) == IF Len(s) <= n THEN s ELSE SubSeq(s, 1, n)

-----------------------------------------------------------------------------
(* The document store: users *)

UserIds == {1, 2}
Callers == {1}

IdStr(id) == ToString(id)

ObjectId(s) == CHOOSE i \in UserIds : IdStr(i) = s

NoCredential ==
    [ youtube_access_token  |-> None,
      youtube_refresh_token |-> None,
      youtube_token_expiry  |-> 0,
      youtube_connected     |-> FALSE,
      youtube_channel_title |-> None,
      youtube_channel_id    |-> None,
      updated_at            |-> 0 ]

CurrentUser(u) == [ id |-> u, doc |-> users[u] ]

(* What a handler did: its response, the outbound calls it made in order,  *)
(* and the store it leaves.                                                *)
Outcome(resp, trace, us, vs) ==
    [ resp |-> resp, trace |-> trace, users |-> us, videos |-> vs ]

-----------------------------------------------------------------------------
(* Provider responses *)

AccessTokens == {"at1", "at2"}
RefreshTokens == {None, "rt1"}
(* expires_in, in ticks of the clock *)
ExpiresIn == {1}

TokenInfos ==
    [ access_token : AccessTokens, refresh_token : RefreshTokens,
      expires_in : ExpiresIn ]

(* token_info of a refresh response: the code reads access_token and       *)
(* expires_in only                                                         *)
RefreshInfos ==
    [ access_token : AccessTokens, refresh_token : {None},
      expires_in : ExpiresIn ]

ExcText == "<exception>"

-----------------------------------------------------------------------------
(* GET /callback *)

StateMatches_NoCheck(current_user, state) == TRUE

StateMatches(current_user, state) == IdStr(current_user.id) = state

(* the $set of lines 81-88 reads the clock twice: once for the expiry     *)
(* (t) and once more for updated_at (t_upd)                                *)
StoreTokens(db_users, uid, token_info, t, t_upd) ==
    [ db_users EXCEPT ![uid] =
        [ @ EXCEPT !.youtube_access_token  = token_info.access_token,
                   !.youtube_refresh_token = token_info.refresh_token,
                   !.youtube_token_expiry  = t + token_info.expires_in,
                   !.youtube_connected     = TRUE,
                   !.updated_at            = t_upd ] ]

StoreChannel(db_users, uid, channel) ==
    [ db_users EXCEPT ![uid] =
        [ @ EXCEPT !.youtube_channel_title = channel.title,
                   !.youtube_channel_id    = channel.id ] ]

Channels == { [ title |-> "My Channel", id |-> "UC1" ] }

CallbackEnvs ==
    [ token_ok : BOOLEAN, token_info : TokenInfos, store_ok : BOOLEAN,
      channel : {"items", "empty", "non200", "raise"},
      channel_data : Channels, channel_store_ok : BOOLEAN ]

Failure(text) == [ success |-> FALSE, text |-> text ]
Success(text) == [ success |-> TRUE, text |-> text ]

youtube_callback(db_users, db_videos, current_user, code, state, error, env, t, t_upd) ==
    IF Truthy(error) THEN
        Outcome(Failure(error), <<>>, db_users, db_videos)
    ELSE IF ~Truthy(code) \/ ~Truthy(state) THEN
        Outcome(Failure("Missing code or state parameter"), <<>>,
                db_users, db_videos)
    ELSE IF ~StateMatches(current_user, state) THEN
        Outcome(Failure("Invalid state parameter"), <<>>, db_users, db_videos)
    ELSE IF ~env.token_ok THEN
        Outcome(Failure(ExcText), <<"token.exchange">>, db_users, db_videos)
    ELSE IF ~env.store_ok THEN
        Outcome(Failure(ExcText), <<"token.exchange">>, db_users, db_videos)
    ELSE
        LET user_id == state
            stored  == StoreTokens(db_users, ObjectId(user_id),
                                   env.token_info, t, t_upd)
            tr      == <<"token.exchange", "users.update_one",
                         "channels.list">>
        IN  IF env.channel = "raise" THEN
                Outcome(Failure(ExcText), tr, stored, db_videos)
            ELSE IF env.channel = "items" THEN
                IF ~env.channel_store_ok THEN
                    Outcome(Failure(ExcText), tr, stored, db_videos)
                ELSE
                    Outcome(Success("Connected to YouTube channel: "
                                    \o env.channel_data.title),
                            Append(tr, "users.update_one"),
                            StoreChannel(stored, ObjectId(user_id),
                                         env.channel_data),
                            db_videos)
            ELSE
                Outcome(Success("YouTube account connected successfully"),
                        tr, stored, db_videos)

-----------------------------------------------------------------------------
(* refresh_youtube_token and GET /status *)

RefreshEnvs ==
    [ refresh_ok : BOOLEAN, token_info : RefreshInfos, store_ok : BOOLEAN ]

StoreRefreshed_TokenOnly(db_users, uid, token_info, t, t_upd) ==
    [ db_users EXCEPT ![uid] =
        [ @ EXCEPT !.youtube_access_token = token_info.access_token,
                   !.updated_at           = t_upd ] ]

(* the refresh $set reads the clock for the expiry (t) and again for      *)
(* updated_at (t_upd)                                                      *)
StoreRefreshed(db_users, uid, token_info, t, t_upd) ==
    [ db_users EXCEPT ![uid] =
        [ @ EXCEPT !.youtube_access_token = token_info.access_token,
                   !.youtube_token_expiry = t + token_info.expires_in,
                   !.updated_at           = t_upd ] ]

Disconnect(db_users, uid) ==
    [ db_users EXCEPT ![uid] = [ @ EXCEPT !.youtube_connected = FALSE ] ]

refresh_youtube_token_Disconnects(db_users, user, env, t, t_upd) ==
    LET refresh_token == user.doc.youtube_refresh_token
    IN  IF ~Truthy(refresh_token) THEN
            [ token |-> None, trace |-> <<>>, users |-> db_users ]
        ELSE IF ~env.refresh_ok \/ ~env.store_ok THEN
            [ token |-> None, trace |-> <<"token.refresh">>,
              users |-> Disconnect(db_users, user.id) ]
        ELSE
            [ token |-> env.token_info.access_token,
              trace |-> <<"token.refresh", "users.update_one">>,
              users |-> StoreRefreshed(db_users, user.id, env.token_info,
                                       t, t_upd) ]

(* returns the new access token or None, the calls made, the users left *)
refresh_youtube_token(db_users, user, env, t, t_upd) ==
    LET refresh_token == user.doc.youtube_refresh_token
    IN  IF ~Truthy(refresh_token) THEN
            [ token |-> None, trace |-> <<>>, users |-> db_users ]
        ELSE IF ~env.refresh_ok THEN
            [ token |-> None, trace |-> <<"token.refresh">>,
              users |-> db_users ]
        ELSE IF ~env.store_ok THEN
            [ token |-> None, trace |-> <<"token.refresh">>,
              users |-> db_users ]
        ELSE
            [ token |-> env.token_info.access_token,
              trace |-> <<"token.refresh", "users.update_one">>,
              users |-> StoreRefreshed(db_users, user.id, env.token_info,
                                       t, t_upd) ]

StatusResponse(connected, channel_title) ==
    [ connected |-> connected,
      channel_title |-> IF connected THEN channel_title ELSE "" ]

youtube_status(db_users, db_videos, current_user, env, clock) ==
    LET connected     == current_user.doc.youtube_connected
        channel_title == IF current_user.doc.youtube_channel_title = None
                         THEN ""
                         ELSE current_user.doc.youtube_channel_title
        expiry_time   == current_user.doc.youtube_token_expiry
    IN  IF /\ connected
           /\ expiry_time # 0
           /\ clock.check > expiry_time
           /\ Truthy(current_user.doc.youtube_refresh_token)
        THEN
            LET r == refresh_youtube_token(db_users, current_user, env,
                                           clock.refresh, clock.refresh_upd)
            IN  Outcome(StatusResponse(Truthy(r.token), channel_title),
                        r.trace, r.users, db_videos)
        ELSE
            Outcome(StatusResponse(connected, channel_title), <<>>,
                    db_users, db_videos)

-----------------------------------------------------------------------------
(* The document store: videos and keyword sets; the upload directory *)

VideoIds == {1, 2}
RequestVideoIds == {1, 2, 3}

UPLOAD_DIR == "./uploads"

VideoPath(filename) == UPLOAD_DIR \o "/" \o filename

(* elements of a stored keyword list: a str, a dict with a "keyword" key,  *)
(* a dict without it, or a value of another type                           *)
PyStr(k) == [ kind |-> "str", keyword |-> k ]
PyObj(k) == [ kind |-> "dict", keyword |-> k ]
PyOther == [ kind |-> "other", keyword |-> None ]

Word(i) == "k" \o ToString(i)

(* the keyword strings k1..kn *)
Words(n) == [ i \in 1..n |-> Word(i) ]

PlainShape(ks) == [ i \in 1..Len(ks) |-> PyStr(ks[i]) ]
ObjectShape(ks) == [ i \in 1..Len(ks) |-> PyObj(ks[i]) ]

NoDoc == [ found |-> FALSE, keywords |-> <<>> ]
Doc(list) == [ found |-> TRUE, keywords |-> list ]

(* db.keywords.find_one({"_id": ObjectId(keywords_id)}) *)
FindKeywords(db_keywords, id) ==
    IF id \in DOMAIN db_keywords THEN Doc(db_keywords[id]) ELSE NoDoc

NewVideo(owner, filename, title, keywords_id) ==
    [ user_id                    |-> IdStr(owner),
      filename                   |-> filename,
      title                      |-> title,
      keywords_id                |-> keywords_id,
      youtube_uploaded           |-> FALSE,
      youtube_video_id           |-> None,
      youtube_upload_date        |-> 0,
      youtube_title              |-> None,
      youtube_description        |-> None,
      youtube_tags               |-> <<>>,
      youtube_redirect_attempted |-> FALSE,
      youtube_redirect_date      |-> 0,
      updated_at                 |-> 0 ]

NoVideo == [ found |-> FALSE, doc |-> NewVideo(0, None, None, None) ]

(* db.videos.find_one({"_id": ObjectId(video_id), "user_id": str(_id)}) *)
FindVideo(db_videos, video_id, current_user) ==
    IF /\ video_id \in DOMAIN db_videos
       /\ db_videos[video_id].user_id = IdStr(current_user.id)
    THEN [ found |-> TRUE, doc |-> db_videos[video_id] ]
    ELSE NoVideo

-----------------------------------------------------------------------------
(* Keyword resolution and effective metadata of POST /upload/{video_id} *)

AllDictsWithKey(list) ==
    \A i \in 1..Len(list) : list[i].kind = "dict"

(* keywords out of keyword_doc["keywords"]; a raised exception gives [] *)
NormalizeKeywords_FirstOnly(list) ==
    IF Len(list) = 0 THEN <<>>
    ELSE IF list[1].kind = "dict" THEN
        IF AllDictsWithKey(list)
        THEN <<PyStr(list[1].keyword)>>
        ELSE <<>>
    ELSE IF list[1].kind = "str" THEN list
    ELSE <<>>

NormalizeKeywords(list) ==
    IF Len(list) = 0 THEN <<>>
    ELSE IF list[1].kind = "dict" THEN
        IF AllDictsWithKey(list)
        THEN [ i \in 1..Len(list) |-> PyStr(list[i].keyword) ]
        ELSE <<>>
    ELSE IF list[1].kind = "str" THEN list
    ELSE <<>>

ResolveKeywords(db_keywords, video, find_ok) ==
    IF ~Truthy(video.keywords_id) THEN <<>>
    ELSE IF ~find_ok THEN <<>>
    ELSE LET keyword_doc == FindKeywords(db_keywords, video.keywords_id)
         IN  IF keyword_doc.found
             THEN NormalizeKeywords(keyword_doc.keywords)
             ELSE <<>>

AllStrs(list) == \A i \in 1..Len(list) : list[i].kind = "str"

RECURSIVE Join(_)
(* ", ".join(list), for a list of str *)
Join(list) ==
    IF Len(list) = 0 THEN ""
    ELSE IF Len(list) = 1 THEN list[1].keyword
    ELSE list[1].keyword \o ", " \o Join(Tail(list))

(* title or video.get("title", "Untitled Video"): the default stands in   *)
(* for a missing key only, a stored null or empty title is taken as is    *)
EffectiveTitle(title, video) ==
    IF Truthy(title) THEN title
    ELSE GetOr(video.title, "Untitled Video")

(* ", ".join(keywords[:5]) raises TypeError on a non-str element *)
KeywordTextRaises(keywords) ==
    Len(keywords) > 0 /\ ~AllStrs(Take(keywords, DescKeywords))

KeywordText_NoDefault(keywords) ==
    IF Len(keywords) > 0 THEN Join(Take(keywords, DescKeywords)) ELSE ""

KeywordText(keywords) ==
    IF Len(keywords) > 0
    THEN Join(Take(keywords, DescKeywords))
    ELSE "SEO optimized content"

EffectiveDescription(description, keywords) ==
    IF Truthy(description) THEN description
    ELSE "Video analyzed with SEO keywords: " \o KeywordText(keywords)

(* video_tags = tags or keywords; video_tags[:30] if video_tags else [] *)
EffectiveTags_NoLimit(body, keywords) ==
    IF body.tags_given /\ Len(body.tags) > 0 THEN body.tags ELSE keywords

EffectiveTags(body, keywords) ==
    LET video_tags == IF body.tags_given /\ Len(body.tags) > 0
                      THEN body.tags
                      ELSE keywords
    IN  IF Len(video_tags) > 0 THEN Take(video_tags, TagLimit) ELSE <<>>

-----------------------------------------------------------------------------
(* POST /upload/{video_id} *)

HttpError(status, detail) == [ status |-> status, detail |-> detail ]

NoInsert == [ token |-> None, title |-> None, description |-> None,
              tags |-> <<>> ]

UploadOutcome(resp, trace, us, vs, sent) ==
    [ resp |-> resp, trace |-> trace, users |-> us, videos |-> vs,
      sent |-> sent ]

NotConnected_Never(current_user) == FALSE

NotConnected(current_user) == ~current_user.doc.youtube_connected

TokenExpired_Never(current_user, t) == FALSE

TokenExpired(current_user, t) == current_user.doc.youtube_token_expiry < t

(* the refresh block of upload_to_youtube and get_youtube_upload_url:      *)
(* posts current_user["youtube_refresh_token"] without testing it          *)
InlineRefresh(db_users, current_user, env, t, t_upd) ==
    IF ~env.refresh_ok \/ ~env.store_ok THEN
        [ ok |-> FALSE, trace |-> <<"token.refresh">>, users |-> db_users,
          access_token |-> current_user.doc.youtube_access_token ]
    ELSE
        [ ok |-> TRUE, trace |-> <<"token.refresh", "users.update_one">>,
          users |-> StoreRefreshed(db_users, current_user.id,
                                   env.token_info, t, t_upd),
          access_token |-> env.token_info.access_token ]

MarkUploaded_Simulated(db_videos, video_id, youtube_video_id, title, description, tags, t, t_upd) ==
    [ db_videos EXCEPT ![video_id] =
        [ @ EXCEPT !.youtube_uploaded    = TRUE,
                   !.youtube_video_id    = "simulated-yt-" \o ToString(video_id),
                   !.youtube_upload_date = t,
                   !.updated_at          = t_upd ] ]

MarkUploaded(db_videos, video_id, youtube_video_id, title, description, tags, t, t_upd) ==
    [ db_videos EXCEPT ![video_id] =
        [ @ EXCEPT !.youtube_uploaded    = TRUE,
                   !.youtube_video_id    = youtube_video_id,
                   !.youtube_upload_date = t,
                   !.youtube_title       = title,
                   !.youtube_description = description,
                   !.youtube_tags        = tags,
                   !.updated_at          = t_upd ] ]

WatchUrl(youtube_video_id) ==
    "https://www.youtube.com/watch?v=" \o youtube_video_id

UploadSuccess(video_id, youtube_video_id, title, description, tags) ==
    [ status              |-> 200,
      detail              |-> "Video uploaded to YouTube successfully",
      video_id            |-> video_id,
      youtube_video_id    |-> youtube_video_id,
      youtube_url         |-> WatchUrl(youtube_video_id),
      youtube_title       |-> title,
      youtube_description |-> description,
      youtube_tags        |-> tags ]

FileMissing(fs, video) == VideoPath(video.filename) \notin fs

(* lines 210-316: from keyword resolution to the provider call *)
UploadBody(db_users, db_videos, db_keywords, fs, access_token, video_id, video, body, env, clock, trace) ==
    LET keywords == ResolveKeywords(db_keywords, video, env.keywords_ok)
        tr1      == IF Truthy(video.keywords_id)
                    THEN Append(trace, "keywords.find_one")
                    ELSE trace
    IN  IF KeywordTextRaises(keywords) THEN
            UploadOutcome(HttpError(500, "Failed to upload to YouTube"),
                          tr1, db_users, db_videos, NoInsert)
        ELSE
        LET video_title       == EffectiveTitle(Get(body.title), video)
            video_description == EffectiveDescription(Get(body.description),
                                                      keywords)
            video_tags        == EffectiveTags(body, keywords)
            tr2               == Append(tr1, "os.path.exists")
            sent              == [ token       |-> access_token,
                                   title       |-> video_title,
                                   description |-> video_description,
                                   tags        |-> video_tags ]
            tr3               == Append(tr2, "videos.insert")
        IN  IF FileMissing(fs, video) THEN
                UploadOutcome(HttpError(404, "Video file not found"),
                              tr2, db_users, db_videos, NoInsert)
            ELSE IF env.provider = "http_error" THEN
                UploadOutcome(HttpError(500, "YouTube upload failed"),
                              tr3, db_users, db_videos, sent)
            ELSE IF env.provider = "error" THEN
                UploadOutcome(HttpError(500, "Failed to upload to YouTube"),
                              tr3, db_users, db_videos, sent)
            ELSE IF ~env.video_store_ok THEN
                UploadOutcome(HttpError(500, "Failed to upload to YouTube"),
                              tr3, db_users, db_videos, sent)
            ELSE
                UploadOutcome(
                    UploadSuccess(video_id, env.youtube_video_id, video_title,
                                  video_description, video_tags),
                    Append(tr3, "videos.update_one"),
                    db_users,
                    MarkUploaded(db_videos, video_id, env.youtube_video_id,
                                 video_title, video_description, video_tags,
                                 clock.store, clock.store_upd),
                    sent)

(* the 404 raised inside the lookup's try block is an Exception, so the   *)
(* block's own handler turns it into the 500 of line 170                  *)
VideoNotFound == HttpError(500, "Error retrieving video")

upload_to_youtube(db_users, db_videos, db_keywords, fs, current_user, video_id, body, env, clock) ==
    IF ~body.valid THEN
        UploadOutcome(HttpError(400, "Invalid request body: " \o ExcText),
                      <<>>,
                      db_users, db_videos, NoInsert)
    ELSE IF NotConnected(current_user) THEN
        UploadOutcome(HttpError(401, "YouTube account not connected"), <<>>,
                      db_users, db_videos, NoInsert)
    ELSE IF ~env.find_ok THEN
        UploadOutcome(HttpError(500, "Error retrieving video"),
                      <<"videos.find_one">>, db_users, db_videos, NoInsert)
    ELSE
    LET found == FindVideo(db_videos, video_id, current_user)
    IN  IF ~found.found THEN
            UploadOutcome(VideoNotFound, <<"videos.find_one">>,
                          db_users, db_videos, NoInsert)
        ELSE IF TokenExpired(current_user, clock.check) THEN
            LET r == InlineRefresh(db_users, current_user, env,
                                   clock.refresh, clock.refresh_upd)
            IN  IF ~r.ok THEN
                    UploadOutcome(
                        HttpError(401, "Failed to refresh YouTube token"),
                        <<"videos.find_one">> \o r.trace,
                        r.users, db_videos, NoInsert)
                ELSE
                    UploadBody(r.users, db_videos, db_keywords, fs,
                               r.access_token, video_id, found.doc, body,
                               env, clock,
                               <<"videos.find_one">> \o r.trace)
        ELSE
            UploadBody(db_users, db_videos, db_keywords, fs,
                       current_user.doc.youtube_access_token,
                       video_id, found.doc, body, env, clock,
                       <<"videos.find_one">>)

-----------------------------------------------------------------------------
(* POST /upload-url/{video_id} *)

MarkRedirect_AsUpload(db_videos, video_id, t, t_upd) ==
    [ db_videos EXCEPT ![video_id] =
        [ @ EXCEPT !.youtube_redirect_attempted = TRUE,
                   !.youtube_redirect_date      = t,
                   !.youtube_uploaded           = TRUE,
                   !.updated_at                 = t_upd ] ]

(* the $set reads the clock for youtube_redirect_date (t) and again for   *)
(* updated_at (t_upd)                                                      *)
MarkRedirect(db_videos, video_id, t, t_upd) ==
    [ db_videos EXCEPT ![video_id] =
        [ @ EXCEPT !.youtube_redirect_attempted = TRUE,
                   !.youtube_redirect_date      = t,
                   !.updated_at                 = t_upd ] ]

RedirectSuccess(video_id, body) ==
    [ status              |-> 200,
      detail              |-> "YouTube upload URL generated successfully",
      redirectUrl         |-> "https://www.youtube.com/upload",
      video_id            |-> video_id,
      youtube_title       |-> GetOr(body.title, "Untitled Video"),
      youtube_description |-> GetOr(body.description, ""),
      youtube_tags        |-> IF body.tags_given /\ Len(body.tags) > 0
                              THEN Take(body.tags, TagLimit)
                              ELSE <<>> ]

get_youtube_upload_url(db_users, db_videos, current_user, video_id, body, env, clock) ==
    IF ~body.valid THEN
        UploadOutcome(HttpError(400, "Invalid request body: " \o ExcText),
                      <<>>,
                      db_users, db_videos, NoInsert)
    ELSE IF NotConnected(current_user) THEN
        UploadOutcome(HttpError(401, "YouTube account not connected"), <<>>,
                      db_users, db_videos, NoInsert)
    ELSE IF ~env.find_ok THEN
        UploadOutcome(HttpError(500, "Error retrieving video"),
                      <<"videos.find_one">>, db_users, db_videos, NoInsert)
    ELSE
    LET found == FindVideo(db_videos, video_id, current_user)
        r     == IF TokenExpired(current_user, clock.check)
                 THEN InlineRefresh(db_users, current_user, env,
                                    clock.refresh, clock.refresh_upd)
                 ELSE [ ok |-> TRUE, trace |-> <<>>, users |-> db_users,
                        access_token |->
                            current_user.doc.youtube_access_token ]
        tr    == <<"videos.find_one">> \o r.trace
    IN  IF ~found.found THEN
            UploadOutcome(VideoNotFound, <<"videos.find_one">>,
                          db_users, db_videos, NoInsert)
        ELSE IF ~r.ok THEN
            UploadOutcome(HttpError(401, "Failed to refresh YouTube token"),
                          tr, r.users, db_videos, NoInsert)
        ELSE IF ~env.video_store_ok THEN
            UploadOutcome(RedirectSuccess(video_id, body), tr,
                          r.users, db_videos, NoInsert)
        ELSE
            UploadOutcome(RedirectSuccess(video_id, body),
                          Append(tr, "videos.update_one"),
                          r.users,
                          MarkRedirect(db_videos, video_id, clock.store,
                                       clock.store_upd),
                          NoInsert)

-----------------------------------------------------------------------------
(* Requests and the outcomes of their outbound calls *)

Codes == { None, "", "4/code" }
States == { None, "1", "2", "01" }
OAuthErrors == { None, "access_denied" }

DefaultInfo == [ access_token |-> "at1", refresh_token |-> None,
                 expires_in |-> 1 ]

Called(trace, call) == \E i \in 1..Len(trace) : trace[i] = call

(* one record per distinguishable run of the callback's outbound calls *)
CallbackRuns ==
    { e \in CallbackEnvs :
        /\ (~e.token_ok => e.token_info = DefaultInfo /\ e.store_ok)
        /\ (~e.store_ok => e.token_info = DefaultInfo)
        /\ (~e.token_ok \/ ~e.store_ok =>
                e.channel = "empty" /\ e.channel_store_ok)
        /\ (e.channel # "items" => e.channel_store_ok) }

NoCallbackRun == CHOOSE e \in CallbackRuns : ~e.token_ok

CallbackRunUsed(e, trace) ==
    Called(trace, "token.exchange") \/ e = NoCallbackRun

RefreshRuns ==
    { e \in RefreshEnvs :
        /\ (~e.refresh_ok => e.token_info = DefaultInfo /\ e.store_ok)
        /\ (~e.store_ok => e.token_info = DefaultInfo) }

NoRefreshRun == CHOOSE e \in RefreshRuns : ~e.refresh_ok

RefreshRunUsed(e, trace) ==
    Called(trace, "token.refresh") \/ e = NoRefreshRun

YoutubeVideoIds == { "ytA", "ytB" }

UploadEnvs ==
    [ find_ok : BOOLEAN, refresh_ok : BOOLEAN, token_info : RefreshInfos,
      store_ok : BOOLEAN, keywords_ok : BOOLEAN,
      provider : {"ok", "http_error", "error"},
      youtube_video_id : YoutubeVideoIds, video_store_ok : BOOLEAN ]

UploadRuns ==
    { e \in UploadEnvs :
        /\ (~e.refresh_ok => e.token_info = DefaultInfo /\ e.store_ok)
        /\ (~e.store_ok => e.token_info = DefaultInfo)
        /\ (~e.find_ok => e.refresh_ok /\ e.store_ok)
        /\ (~e.find_ok \/ ~e.refresh_ok \/ ~e.store_ok =>
                e.keywords_ok /\ e.provider = "error")
        /\ (e.provider # "ok" =>
                e.youtube_video_id = "ytA" /\ e.video_store_ok)
        /\ (~e.video_store_ok => e.youtube_video_id = "ytA") }

(* an outcome is drawn only for a call the handler makes *)
UploadRunUsed(e, trace) ==
    /\ (~Called(trace, "videos.find_one") => e.find_ok)
    /\ (~Called(trace, "token.refresh") =>
            e.refresh_ok /\ e.store_ok /\ e.token_info = DefaultInfo)
    /\ (~Called(trace, "keywords.find_one") => e.keywords_ok)
    /\ (~Called(trace, "videos.insert") => e.provider = "error")

RedirectEnvs ==
    [ find_ok : BOOLEAN, refresh_ok : BOOLEAN, token_info : RefreshInfos,
      store_ok : BOOLEAN, video_store_ok : BOOLEAN ]

RedirectRuns ==
    { e \in RedirectEnvs :
        /\ (~e.refresh_ok => e.token_info = DefaultInfo /\ e.store_ok)
        /\ (~e.store_ok => e.token_info = DefaultInfo)
        /\ (~e.find_ok => e.refresh_ok /\ e.store_ok)
        /\ (~e.find_ok \/ ~e.refresh_ok \/ ~e.store_ok =>
                e.video_store_ok) }

RedirectRunUsed(e, out) ==
    /\ (~Called(out.trace, "videos.find_one") => e.find_ok)
    /\ (~Called(out.trace, "token.refresh") =>
            e.refresh_ok /\ e.store_ok /\ e.token_info = DefaultInfo)
    /\ (out.resp.status # 200 => e.video_store_ok)

Tag(i) == "t" \o ToString(i)
Tags(n) == [ i \in 1..n |-> PyStr(Tag(i)) ]

TagLists == { <<>>, Tags(TagLimit), Tags(MaxTags) }

InvalidBody == [ valid |-> FALSE, title |-> Absent, description |-> Absent,
                 tags_given |-> FALSE, tags |-> <<>> ]

EmptyBody == [ valid |-> TRUE, title |-> Absent, description |-> Absent,
               tags_given |-> FALSE, tags |-> <<>> ]

FullBody == [ valid |-> TRUE, title |-> "Caller title",
              description |-> "Caller description",
              tags_given |-> TRUE, tags |-> Tags(2) ]

(* {"title": null} and {"description": null} *)
NullBodies ==
    { [ EmptyBody EXCEPT !.title = None ],
      [ EmptyBody EXCEPT !.description = None ] }

Bodies ==
    { InvalidBody } \cup NullBodies \cup
    { b \in [ valid : {TRUE}, title : {Absent, "Caller title"},
              description : {Absent, "Caller description"},
              tags_given : BOOLEAN, tags : TagLists ] :
        ~b.tags_given => b.tags = <<>> }

FlowBodies == { InvalidBody, EmptyBody, FullBody }

NoCall == [ op |-> "none" ]

(* the values datetime.now() has at the reads of one request, in the      *)
(* order the handler makes them: the expiry test (check), the users $set  *)
(* (refresh for the expiry, refresh_upd for updated_at) and the video     *)
(* $set (store for the date, store_upd for updated_at)                     *)
Instant(t) == [ check |-> t, refresh |-> t, refresh_upd |-> t,
                store |-> t, store_upd |-> t ]

ClockReads(t) ==
    { c \in [ check : {t}, refresh : t..MaxTime, refresh_upd : t..MaxTime,
              store : t..MaxTime, store_upd : t..MaxTime ] :
        /\ c.refresh <= c.refresh_upd
        /\ c.refresh_upd <= c.store
        /\ c.store <= c.store_upd }

(* a read is drawn only for a write the handler makes *)
ClockUsed(c, trace) ==
    /\ ~Called(trace, "users.update_one") =>
            c.refresh = c.check /\ c.refresh_upd = c.check
    /\ ~Called(trace, "videos.update_one") =>
            c.store = c.refresh_upd /\ c.store_upd = c.refresh_upd

(* the requests being served, step by step *)
RequestIds == 1..MaxRequests

Ops == { "upload", "upload_url", "status" }

(* the $set of the video write a request has built *)
NoVideoSet == [ youtube_video_id |-> None, title |-> None,
                description |-> None, tags |-> <<>> ]

NoRequest ==
    [ pc |-> "idle", op |-> "none",
      current_user |-> [ id |-> 0, doc |-> NoCredential ],
      video |-> NoVideo.doc, token_info |-> DefaultInfo,
      access_token |-> None, stamp |-> 0, stamp_upd |-> 0,
      video_set |-> NoVideoSet,
      status |-> 0, connected |-> FALSE ]

NoRequests == [ r \in RequestIds |-> NoRequest ]

(* the token responses the provider gave, and the refresh writes made *)
NoRefreshes == [ issued |-> {}, writes |-> <<>> ]

Handled(op, current_user, args, env, t, out) ==
    [ op |-> op, current_user |-> current_user, args |-> args, env |-> env,
      t |-> t, resp |-> out.resp, trace |-> out.trace, sent |-> out.sent ]

-----------------------------------------------------------------------------
(* Actions *)

Callback ==
    \E u \in Callers, code \in Codes, state \in States,
       error \in OAuthErrors, env \in CallbackRuns,
       clock \in ClockReads(now) :
        LET out == youtube_callback(users, videos, CurrentUser(u), code,
                                    state, error, env, clock.refresh,
                                    clock.refresh_upd)
        IN  /\ CallbackRunUsed(env, out.trace)
            /\ ClockUsed(clock, out.trace)
            /\ users' = out.users
            /\ videos' = out.videos
            /\ now' = clock.store_upd
            /\ last' = Handled("callback", CurrentUser(u),
                               [ code |-> code, state |-> state,
                                 error |-> error ],
                               env, clock,
                               out @@ [ sent |-> NoInsert ])
            /\ UNCHANGED <<keyword_sets, files, inflight, refresh_log, awaiting>>

Status ==
    \E u \in Callers, env \in RefreshRuns, clock \in ClockReads(now) :
        LET out == youtube_status(users, videos, CurrentUser(u), env, clock)
        IN  /\ RefreshRunUsed(env, out.trace)
            /\ ClockUsed(clock, out.trace)
            /\ users' = out.users
            /\ videos' = out.videos
            /\ now' = clock.store_upd
            /\ last' = Handled("status", CurrentUser(u), [ none |-> None ],
                               env, clock, out @@ [ sent |-> NoInsert ])
            /\ UNCHANGED <<keyword_sets, files, inflight, refresh_log, awaiting>>

(* a request to upload or upload-url arrives: get_current_user reads the  *)
(* caller's document and the handler waits for the request body           *)
Arrive ==
    \E u \in Callers :
        /\ CurrentUser(u) \notin awaiting
        /\ awaiting' = awaiting \cup { CurrentUser(u) }
        /\ UNCHANGED <<users, videos, keyword_sets, files, now, last,
                       inflight, refresh_log>>

UploadOf(video_ids, bodies, runs) ==
    \E current_user \in awaiting, video_id \in video_ids,
       body \in bodies, env \in runs, clock \in ClockReads(now) :
        LET out == upload_to_youtube(users, videos, keyword_sets, files,
                                     current_user, video_id, body, env,
                                     clock)
        IN  /\ UploadRunUsed(env, out.trace)
            /\ ClockUsed(clock, out.trace)
            /\ users' = out.users
            /\ videos' = out.videos
            /\ now' = clock.store_upd
            /\ last' = Handled("upload", current_user,
                               [ video_id |-> video_id, body |-> body ],
                               env, clock, out)
            /\ UNCHANGED <<keyword_sets, files, inflight, refresh_log, awaiting>>

UploadUrlOf(video_ids, bodies, runs) ==
    \E current_user \in awaiting, video_id \in video_ids,
       body \in bodies, env \in runs, clock \in ClockReads(now) :
        LET out == get_youtube_upload_url(users, videos, current_user,
                                          video_id, body, env, clock)
        IN  /\ RedirectRunUsed(env, out)
            /\ ClockUsed(clock, out.trace)
            /\ users' = out.users
            /\ videos' = out.videos
            /\ now' = clock.store_upd
            /\ last' = Handled("upload_url", current_user,
                               [ video_id |-> video_id, body |-> body ],
                               env, clock, out)
            /\ UNCHANGED <<keyword_sets, files, inflight, refresh_log, awaiting>>

Upload == UploadOf(RequestVideoIds, Bodies, UploadRuns)

UploadUrl == UploadUrlOf(RequestVideoIds, Bodies, RedirectRuns)

(* PUT /profile and PUT /notification-preferences of user_routes_simple:  *)
(* the module's own get_current_user returns one fixed user, whose _id    *)
(* names a document of db.users of its own                                *)
MockUserId == 3

MockUser ==
    [ id |-> MockUserId,
      doc |-> [ username |-> "testuser", email |-> "test@example.com" ] ]

(* the request body: unparsable, {} or {"phone_number": ...} *)
ProfileBodies ==
    [ valid : {FALSE}, phone_number : {Absent} ] \cup
    [ valid : {TRUE}, phone_number : { Absent, "+919876543210" } ]

(* the request body: unparsable or the preferences sent *)
PreferenceBodies ==
    { [ valid |-> FALSE, value |-> None ],
      [ valid |-> TRUE, value |-> "likes only" ] }

(* the module's db: None, a database, or one whose truth test ("if db:")  *)
(* raises; and whether update_one and insert_one answer                   *)
ProfileEnvs ==
    [ db : { "unset", "set", "raises" }, update_ok : BOOLEAN,
      insert_ok : BOOLEAN ]

(* datetime.utcnow() in the $set, and in created_at and updated_at of the *)
(* document inserted                                                      *)
ProfileClocks(t) ==
    { c \in [ set : {t}, created_at : t..MaxTime, updated_at : t..MaxTime ] :
        c.created_at <= c.updated_at }

Message(text) == [ status |-> 200, message |-> text ]

SetField(doc, field, value, t) ==
    [ doc EXCEPT ![field] = value, !.updated_at = t ]

NewProfile(current_user, field, value, clock) ==
    [ [ username                 |-> current_user.doc.username,
        email                    |-> current_user.doc.email,
        phone_number             |-> Absent,
        notification_preferences |-> Absent,
        created_at               |-> clock.created_at,
        updated_at               |-> clock.updated_at ]
      EXCEPT ![field] = value ]

(* update_user_profile and update_notification_preferences: the body is   *)
(* parsed; with db set, update_one sets the field and updated_at of the   *)
(* user's document; when it modified nothing (no such document, or one    *)
(* that already holds these values) a new document is built and           *)
(* insert_one is called, which raises on an _id already stored; every     *)
(* exception is answered 500                                              *)
update_user_document(db_users, current_user, field, valid, value, what, failure, env, clock) ==
    LET uid     == current_user.id
        failed  == HttpError(500, "Failed to update " \o failure)
        both    == << "users.update_one", "users.insert_one" >>
        Left(resp, trace, us) ==
            [ resp |-> resp, trace |-> trace, users |-> us ]
    IN  IF ~valid \/ env.db = "raises" THEN Left(failed, <<>>, db_users)
        ELSE IF env.db = "unset" THEN
            Left(Message(what \o " updated successfully (mock)"), <<>>,
                 db_users)
        ELSE IF ~env.update_ok THEN
            Left(failed, << "users.update_one" >>, db_users)
        ELSE IF uid \in DOMAIN db_users THEN
            LET doc == SetField(db_users[uid], field, value, clock.set)
            IN  IF doc # db_users[uid] THEN
                    Left(Message(what \o " updated successfully"),
                         << "users.update_one" >>,
                         [ db_users EXCEPT ![uid] = doc ])
                ELSE Left(failed, both, db_users)
        ELSE IF ~env.insert_ok THEN Left(failed, both, db_users)
        ELSE
            Left(Message(what \o " created successfully"), both,
                 db_users @@
                     (uid :> NewProfile(current_user, field, value, clock)))

(* an outcome and a clock read are drawn only for a call the handler      *)
(* makes                                                                  *)
ProfileRunUsed(db_users, valid, env, clock, trace) ==
    /\ ~valid => env.db = "set"
    /\ ~Called(trace, "users.update_one") => env.update_ok
    /\ ~(Called(trace, "users.insert_one")
            /\ MockUserId \notin DOMAIN db_users) => env.insert_ok
    /\ ~Called(trace, "users.insert_one") =>
            clock.created_at = clock.set /\ clock.updated_at = clock.set

UpdateUserDocument(op, field, bodies, what, failure) ==
    \E data \in bodies, env \in ProfileEnvs, clock \in ProfileClocks(now) :
        LET value == IF field = "phone_number" THEN Get(data.phone_number)
                     ELSE data.value
            out   == update_user_document(users, MockUser, field, data.valid,
                                          value, what, failure, env, clock)
        IN  /\ ProfileRunUsed(users, data.valid, env, clock, out.trace)
            /\ users' = out.users
            /\ now' = clock.updated_at
            /\ last' = Handled(op, MockUser, [ body |-> data ], env, clock,
                               out @@ [ sent |-> NoInsert ])
            /\ UNCHANGED <<videos, keyword_sets, files, inflight,
                           refresh_log, awaiting>>

UpdateProfile ==
    UpdateUserDocument("profile", "phone_number", ProfileBodies, "Profile",
                       "user profile")

UpdateNotificationPreferences ==
    UpdateUserDocument("notification_preferences",
                       "notification_preferences", PreferenceBodies,
                       "Notification preferences",
                       "notification preferences")

(* datetime.now() advances between requests *)
Tick ==
    /\ now < MaxTime
    /\ now' = now + 1
    /\ UNCHANGED <<users, videos, keyword_sets, files, last, inflight,
                   refresh_log, awaiting>>

-----------------------------------------------------------------------------
(* The handlers step by step: one step per store or provider call *)

(* every token response carries a fresh access token, here named after   *)
(* the request it answers                                                 *)
NewToken(r) == "at" \o ToString(r + 1)

(* and its own expires_in, here 2 and 1 in turn so that the lifetimes of  *)
(* two requests in a row differ                                           *)
NewLifetime(r) == 1 + (r % 2)

(* youtube_status, lines 549-553: the refresh is attempted *)
StatusRefreshes(current_user, t) ==
    /\ current_user.doc.youtube_connected
    /\ current_user.doc.youtube_token_expiry # 0
    /\ t > current_user.doc.youtube_token_expiry
    /\ Truthy(current_user.doc.youtube_refresh_token)

(* the request is answered; what it had read is dropped with it *)
Done(req, status, connected) ==
    [ NoRequest EXCEPT !.pc = "done", !.op = req.op, !.status = status,
                       !.connected = connected ]

(* the part of the refresh failure each handler answers with *)
RefreshFailed(req) ==
    IF req.op = "status" THEN Done(req, 200, FALSE) ELSE Done(req, 401, FALSE)

(* a request arrives: get_current_user reads the caller's document; upload *)
(* and upload-url then wait for the body; requests are numbered in their   *)
(* order of arrival                                                        *)
Receive(r) ==
    /\ inflight[r].pc = "idle"
    /\ \A q \in RequestIds : q < r => inflight[q].pc # "idle"
    /\ \E op \in Ops, u \in Callers :
         inflight' = [ inflight EXCEPT ![r] =
             [ NoRequest EXCEPT !.pc = "arrived", !.op = op,
                                !.current_user = CurrentUser(u) ] ]
    /\ UNCHANGED <<users, videos, keyword_sets, files, now, last,
                   refresh_log, awaiting>>

(* the fields of the video document the handler reads after the lookup    *)
(* (keywords_id 211, title 226, filename 236)                             *)
HeldVideo(doc) ==
    [ NoVideo.doc EXCEPT !.user_id = doc.user_id, !.title = doc.title,
                         !.keywords_id = doc.keywords_id,
                         !.filename = doc.filename ]

(* status: the clock is read and the expiry of the document the handler    *)
(* was called with is tested; upload and upload-url: the connection check  *)
(* on that document, then db.videos.find_one lands                         *)
Checked(req) ==
    LET current_user == req.current_user
        found        == FindVideo(videos, 1, current_user)
    IN  IF req.op = "status" THEN
            IF StatusRefreshes(current_user, now)
            THEN [ req EXCEPT !.pc = "post" ]
            ELSE Done(req, 200, current_user.doc.youtube_connected)
        ELSE IF NotConnected(current_user) THEN Done(req, 401, FALSE)
        ELSE IF ~found.found THEN Done(req, 500, FALSE)
        ELSE [ req EXCEPT !.pc = "found", !.video = HeldVideo(found.doc) ]

Begin(r) ==
    /\ inflight[r].pc = "arrived"
    /\ inflight' = [ inflight EXCEPT ![r] = Checked(@) ]
    /\ UNCHANGED <<users, videos, keyword_sets, files, now, last,
                   refresh_log, awaiting>>

(* line 176 (467): the clock is read and the expiry of the document read   *)
(* at arrival is tested                                                    *)
TestExpiry(r) ==
    /\ inflight[r].pc = "found"
    /\ LET req == inflight[r]
       IN  inflight' = [ inflight EXCEPT ![r] =
               IF TokenExpired(req.current_user, now)
               THEN [ req EXCEPT !.pc = "post" ]
               ELSE [ req EXCEPT !.pc = "rest",
                          !.access_token =
                              req.current_user.doc.youtube_access_token ] ]
    /\ UNCHANGED <<users, videos, keyword_sets, files, now, last,
                   refresh_log, awaiting>>

(* requests.post(token_url) with the refresh token read at arrival        *)
(* answers; the handler builds the $set of the refresh write, reading the *)
(* clock once for the expiry (stamp) and once more for updated_at         *)
(* (stamp_upd)                                                             *)
Post(r) ==
    /\ inflight[r].pc = "post"
    /\ \E ok \in BOOLEAN, t_upd \in now..MaxTime :
         /\ ~ok => t_upd = now
         /\ now' = t_upd
         /\ IF ok
            THEN LET token_info == [ access_token  |-> NewToken(r),
                                     refresh_token |-> None,
                                     expires_in    |-> NewLifetime(r) ]
                 IN  /\ inflight' = [ inflight EXCEPT ![r] =
                            [ @ EXCEPT !.pc = "write",
                                       !.token_info = token_info,
                                       !.stamp = now,
                                       !.stamp_upd = t_upd ] ]
                     /\ refresh_log' = [ refresh_log EXCEPT
                            !.issued = @ \cup { token_info } ]
            ELSE /\ inflight' = [ inflight EXCEPT ![r] = RefreshFailed(@) ]
                 /\ UNCHANGED refresh_log
    /\ UNCHANGED <<users, videos, keyword_sets, files, last, awaiting>>

(* db.users.update_one lands, with the token of that response and the     *)
(* expiry and updated_at computed when its $set was built                 *)
Write(r) ==
    /\ inflight[r].pc = "write"
    /\ \E store_ok \in BOOLEAN :
         LET req == inflight[r]
         IN  IF store_ok
             THEN /\ users' = StoreRefreshed(users, req.current_user.id,
                                             req.token_info, req.stamp,
                                             req.stamp_upd)
                  /\ refresh_log' = [ refresh_log EXCEPT !.writes =
                         Append(@, [ request    |-> r,
                                     token_info |-> req.token_info,
                                     t          |-> req.stamp ]) ]
                  /\ inflight' = [ inflight EXCEPT ![r] =
                         IF req.op = "status" THEN Done(req, 200, TRUE)
                         ELSE [ req EXCEPT !.pc = "rest", !.stamp = 0,
                                    !.stamp_upd = 0,
                                    !.token_info = DefaultInfo,
                                    !.access_token =
                                        req.token_info.access_token ] ]
             ELSE /\ inflight' = [ inflight EXCEPT ![r] = RefreshFailed(@) ]
                  /\ UNCHANGED <<users, refresh_log>>
    /\ UNCHANGED <<videos, keyword_sets, files, now, last, awaiting>>

RestRuns ==
    { e \in UploadRuns :
        /\ e.find_ok /\ e.refresh_ok /\ e.store_ok
        /\ e.token_info = DefaultInfo
        /\ e.youtube_video_id = "ytA" /\ e.video_store_ok }

(* what follows the refresh block up to the video write: lines 210-297 of *)
(* upload (keywords, metadata, file check, provider insert), lines        *)
(* 504-515 of upload-url; the $set is built reading the clock once for    *)
(* the date (stamp) and once more for updated_at (stamp_upd)               *)
Rest(r) ==
    /\ inflight[r].pc = "rest"
    /\ \E t_upd \in now..MaxTime :
       LET req == inflight[r]
       IN  IF req.op = "upload"
           THEN \E env \in RestRuns :
                  LET out == UploadBody(users, videos, keyword_sets, files,
                                        req.access_token, 1, req.video,
                                        EmptyBody, env, Instant(now),
                                        <<>>)
                  IN  /\ UploadRunUsed(env, <<"videos.find_one">> \o out.trace)
                      /\ ~Called(out.trace, "videos.update_one") =>
                             t_upd = now
                      /\ now' = t_upd
                      /\ inflight' = [ inflight EXCEPT ![r] =
                             IF Called(out.trace, "videos.update_one")
                             THEN [ req EXCEPT !.pc = "mark", !.stamp = now,
                                        !.stamp_upd = t_upd,
                                        !.video_set =
                                            [ youtube_video_id |->
                                                  env.youtube_video_id,
                                              title |-> out.sent.title,
                                              description |->
                                                  out.sent.description,
                                              tags |-> out.sent.tags ] ]
                             ELSE Done(req, out.resp.status, TRUE) ]
           ELSE /\ now' = t_upd
                /\ inflight' = [ inflight EXCEPT ![r] =
                       [ req EXCEPT !.pc = "mark", !.stamp = now,
                                    !.stamp_upd = t_upd ] ]
    /\ UNCHANGED <<users, videos, keyword_sets, files, last,
                   refresh_log, awaiting>>

(* db.videos.update_one lands with the dates of the $set: the upload      *)
(* fields (286-297), whose failure fails the upload, or the redirect mark *)
(* (507-515), whose failure is dropped                                    *)
MarkVideo(r) ==
    /\ inflight[r].pc = "mark"
    /\ \E video_store_ok \in BOOLEAN :
         LET req == inflight[r]
         IN  /\ videos' =
                   IF ~video_store_ok THEN videos
                   ELSE IF req.op = "upload"
                   THEN MarkUploaded(videos, 1,
                                     req.video_set.youtube_video_id,
                                     req.video_set.title,
                                     req.video_set.description,
                                     req.video_set.tags, req.stamp,
                                     req.stamp_upd)
                   ELSE MarkRedirect(videos, 1, req.stamp, req.stamp_upd)
             /\ inflight' = [ inflight EXCEPT ![r] =
                    IF req.op = "upload" /\ ~video_store_ok
                    THEN Done(req, 500, TRUE)
                    ELSE Done(req, 200, TRUE) ]
    /\ UNCHANGED <<users, keyword_sets, files, now, last, refresh_log,
                   awaiting>>

ReceiveRequest == \E r \in RequestIds : Receive(r)

BeginRequest == \E r \in RequestIds : Begin(r)

ExpiryTest == \E r \in RequestIds : TestExpiry(r)

PostRefresh == \E r \in RequestIds : Post(r)

WriteRefresh == \E r \in RequestIds : Write(r)

FinishRequest == \E r \in RequestIds : Rest(r)

WriteVideo == \E r \in RequestIds : MarkVideo(r)

-----------------------------------------------------------------------------
(* The stores the requests run against *)

(* no title key, a null title, an empty and a non-empty one *)
StoredTitles == { Absent, None, "", "Stored title" }

KeywordIds == { None, "plain", "object", "empty", "str_then_obj",
                "obj_then_str", "other", "dangling" }

StoredKeywords(n) ==
    [ id \in { "plain", "object", "empty", "str_then_obj", "obj_then_str",
               "other" } |->
        CASE id = "plain"  -> PlainShape(Words(n))
          [] id = "object" -> ObjectShape(Words(n))
          [] id = "empty"  -> <<>>
          [] id = "str_then_obj" -> <<PyStr("k1"), PyObj("k2")>>
          [] id = "obj_then_str" -> <<PyObj("k1"), PyStr("k2")>>
          [] id = "other"  -> <<PyOther, PyStr("k2")>> ]

NoUsers == [ u \in UserIds |-> NoCredential ]

Videos(title, keywords_id) ==
    [ v \in VideoIds |->
        IF v = 1 THEN NewVideo(1, "v1.mp4", title, keywords_id)
        ELSE NewVideo(2, "v2.mp4", "Other title", None) ]

FileSets == { { VideoPath("v2.mp4") },
              { VideoPath("v1.mp4"), VideoPath("v2.mp4") } }

(* a user as the callback leaves it at time t *)
Connected(token_info, t) == StoreTokens(NoUsers, 1, token_info, t, t)

-----------------------------------------------------------------------------
(* Specifications *)

(* the whole router, from an empty credential store *)
Init ==
    /\ users = NoUsers
    /\ \E title \in StoredTitles, keywords_id \in KeywordIds :
         videos = Videos(title, keywords_id)
    /\ keyword_sets = StoredKeywords(MaxKeywords)
    /\ files \in FileSets
    /\ now = 1
    /\ last = NoCall
    /\ inflight = NoRequests
    /\ refresh_log = NoRefreshes
    /\ awaiting = {}

Next ==
    \/ Callback \/ Status \/ Arrive \/ Upload \/ UploadUrl
    \/ UpdateProfile \/ UpdateNotificationPreferences \/ Tick

Spec == Init /\ [][Next]_vars

(* the OAuth token lifecycle: callback, status, refresh *)
InitOAuth ==
    /\ users = NoUsers
    /\ videos = Videos("Stored title", None)
    /\ keyword_sets = StoredKeywords(2)
    /\ files = { VideoPath("v1.mp4"), VideoPath("v2.mp4") }
    /\ now = 1
    /\ last = NoCall
    /\ inflight = NoRequests
    /\ refresh_log = NoRefreshes
    /\ awaiting = {}

NextOAuth == Callback \/ Status \/ Tick

SpecOAuth == InitOAuth /\ [][NextOAuth]_vars

(* the profile and notification-preferences handlers, which write the     *)
(* mock user's own document of db.users                                   *)
InitProfile == InitOAuth

NextProfile == UpdateProfile \/ UpdateNotificationPreferences \/ Tick

SpecProfile == InitProfile /\ [][NextProfile]_vars

(* the control flow of upload and upload-url, for a user the callback has  *)
(* connected (or not) before                                               *)
InitUpload ==
    /\ users \in { NoUsers } \cup
                 { Connected(i, MaxTime - 2) :
                     i \in { t \in TokenInfos : t.access_token = "at2" } }
    /\ videos = Videos("Stored title", "plain")
    /\ keyword_sets = StoredKeywords(2)
    /\ files \in FileSets
    /\ now = MaxTime - 1
    /\ last = NoCall
    /\ inflight = NoRequests
    /\ refresh_log = NoRefreshes
    /\ awaiting = {}

(* runs whose refresh response, if any, is the one of DefaultInfo *)
FlowRuns ==
    { e \in UploadRuns : e.keywords_ok /\ e.token_info = DefaultInfo }

RedirectFlowRuns == { e \in RedirectRuns : e.token_info = DefaultInfo }

UploadFlow == UploadOf(RequestVideoIds, FlowBodies, FlowRuns)

UploadUrlFlow == UploadUrlOf(RequestVideoIds, FlowBodies, RedirectFlowRuns)

NextUpload == Arrive \/ UploadFlow \/ UploadUrlFlow \/ Tick

SpecUpload == InitUpload /\ [][NextUpload]_vars

(* the effective metadata of an upload, for a connected user with a valid *)
(* token whose request has arrived and is served at once, over every      *)
(* stored title and keyword set                                           *)
MetaRuns ==
    { e \in UploadRuns :
        /\ e.find_ok /\ e.refresh_ok /\ e.store_ok
        /\ e.token_info = DefaultInfo
        /\ e.youtube_video_id = "ytA" /\ e.video_store_ok }

InitMeta ==
    /\ users = Connected([ access_token |-> "at1", refresh_token |-> "rt1",
                           expires_in |-> 1 ], 1)
    /\ \E title \in StoredTitles, keywords_id \in KeywordIds :
         /\ title = "Stored title" \/ keywords_id = None
         /\ videos = Videos(title, keywords_id)
    /\ keyword_sets = StoredKeywords(MaxKeywords)
    /\ files \in FileSets
    /\ now = 1
    /\ last = NoCall
    /\ inflight = NoRequests
    /\ refresh_log = NoRefreshes
    /\ awaiting = { CurrentUser(u) : u \in Callers }

UploadMeta ==
    \E current_user \in awaiting, body \in Bodies, env \in MetaRuns :
        LET out == upload_to_youtube(users, videos, keyword_sets, files,
                                     current_user, 1, body, env,
                                     Instant(now))
        IN  /\ UploadRunUsed(env, out.trace)
            /\ users' = out.users
            /\ videos' = out.videos
            /\ last' = Handled("upload", current_user,
                               [ video_id |-> 1, body |-> body ],
                               env, Instant(now), out)
            /\ UNCHANGED <<keyword_sets, files, now, inflight, refresh_log, awaiting>>

NextMeta == UploadMeta

SpecMeta == InitMeta /\ [][NextMeta]_vars

(* keyword resolution over every keyword set, stored in both shapes *)
KeywordWords == { "k1", "k2", "k3" }

KeywordLists ==
    UNION { [ 1..n -> KeywordWords ] : n \in 0..MaxListLen }
    \cup { Words(MaxKeywords) }

InitKeywords ==
    /\ users = NoUsers
    /\ videos = [ v \in VideoIds |->
                    IF v = 1 THEN NewVideo(1, "v1.mp4", None, "plain")
                    ELSE NewVideo(1, "v2.mp4", None, "object") ]
    /\ \E ks \in KeywordLists :
         keyword_sets = [ id \in { "plain", "object" } |->
                            IF id = "plain" THEN PlainShape(ks)
                            ELSE ObjectShape(ks) ]
    /\ files = {}
    /\ now = 1
    /\ last = NoCall
    /\ inflight = NoRequests
    /\ refresh_log = NoRefreshes
    /\ awaiting = {}

(* lines 210-223 run for the video of either shape *)
Resolve ==
    /\ last' = [ op |-> "resolve",
                 keywords |-> [ v \in VideoIds |->
                     ResolveKeywords(keyword_sets, videos[v], TRUE) ] ]
    /\ UNCHANGED <<users, videos, keyword_sets, files, now, inflight,
                   refresh_log, awaiting>>

NextKeywords == Resolve

SpecKeywords == InitKeywords /\ [][NextKeywords]_vars

(* upload-url requests with every body, for a user the callback has       *)
(* connected (or not) before                                               *)
InitRedirect ==
    /\ users \in { NoUsers } \cup
                 { Connected(i, MaxTime - 2) :
                     i \in { t \in TokenInfos : t.access_token = "at2" } }
    /\ videos = Videos("Stored title", "plain")
    /\ keyword_sets = StoredKeywords(2)
    /\ files \in FileSets
    /\ now = MaxTime - 1
    /\ last = NoCall
    /\ inflight = NoRequests
    /\ refresh_log = NoRefreshes
    /\ awaiting = {}

UploadUrlOwn == UploadUrlOf({1}, Bodies, RedirectFlowRuns)

NextRedirect == Arrive \/ UploadUrlOwn \/ Tick

SpecRedirect == InitRedirect /\ [][NextRedirect]_vars

(* concurrent requests of one connected user whose token is in its last   *)
(* second, two seconds before the end of the run                          *)
InitConcurrent ==
    /\ \E refresh_token \in RefreshTokens :
         users = StoreChannel(
                     Connected([ access_token  |-> "at1",
                                 refresh_token |-> refresh_token,
                                 expires_in    |-> 1 ], MaxTime - 3),
                     1, [ title |-> "My Channel", id |-> "UC1" ])
    /\ videos = Videos("Stored title", None)
    /\ keyword_sets = StoredKeywords(2)
    /\ files = { VideoPath("v1.mp4"), VideoPath("v2.mp4") }
    /\ now = MaxTime - 2
    /\ last = NoCall
    /\ inflight = NoRequests
    /\ refresh_log = NoRefreshes
    /\ awaiting = {}

NextConcurrent ==
    \/ ReceiveRequest \/ BeginRequest \/ ExpiryTest \/ PostRefresh
    \/ WriteRefresh \/ FinishRequest \/ WriteVideo \/ Tick

SpecConcurrent == InitConcurrent /\ [][NextConcurrent]_vars

-----------------------------------------------------------------------------
(* Properties *)

Count(trace, call) == Cardinality({ i \in 1..Len(trace) : trace[i] = call })

First(trace, call) ==
    CHOOSE i \in 1..Len(trace) :
        trace[i] = call /\ \A j \in 1..(i - 1) : trace[j] # call

(* the request last handled had a well-formed body, came from a connected *)
(* user and named a video of that user which the store returned           *)
ReachedVideo ==
    /\ last.args.body.valid
    /\ last.current_user.doc.youtube_connected
    /\ last.env.find_ok
    /\ last.args.video_id \in DOMAIN videos
    /\ videos[last.args.video_id].user_id = IdStr(last.current_user.id)

WasExpired == last.current_user.doc.youtube_token_expiry < last.t.check

RefreshSucceeded == last.env.refresh_ok /\ last.env.store_ok

AuthExpired(resp) ==
    resp.status = 401 /\ resp.detail = "Failed to refresh YouTube token"

CredentialFields(u) ==
    << users[u].youtube_access_token, users[u].youtube_refresh_token,
       users[u].youtube_token_expiry, users[u].youtube_connected >>

UploadFields(v) ==
    << videos[v].youtube_uploaded, videos[v].youtube_video_id,
       videos[v].youtube_upload_date, videos[v].youtube_title,
       videos[v].youtube_description, videos[v].youtube_tags >>

(* C1 *)
StateMismatch ==
    /\ last.op = "callback"
    /\ Truthy(last.args.code)
    /\ Truthy(last.args.state)
    /\ ~Truthy(last.args.error)
    /\ last.args.state # IdStr(last.current_user.id)

(* C1: a callback with code and state present, no error, and a state that *)
(* is not the string form of the current user's id answers                *)
(* {success: false, error: "Invalid state parameter"}, calls no endpoint  *)
(* and writes no credential field of any user.                            *)
C1_StateMismatchRejected ==
    /\ [](StateMismatch =>
            /\ last.resp = Failure("Invalid state parameter")
            /\ last.trace = <<>>)
    /\ [][StateMismatch' =>
            \A u \in UserIds : CredentialFields(u)' = CredentialFields(u)]_vars

(* the state names another existing user, after the caller had connected *)
C1_Witness ==
    /\ StateMismatch
    /\ last.args.state = "2"
    /\ last.current_user.doc.youtube_connected
    /\ last.resp.text = "Invalid state parameter"

(* C2: an upload by a connected user, for a video of theirs, whose token  *)
(* expiry is in the past refreshes exactly once, before any provider      *)
(* insert; when the refresh fails, or no refresh token is stored, the     *)
(* answer is 401 and the provider insert is not called.                   *)
C2_RefreshOnceBeforeInsert ==
    (last.op = "upload" /\ ReachedVideo /\ WasExpired) =>
        /\ Count(last.trace, "token.refresh") = 1
        /\ Called(last.trace, "videos.insert") =>
               First(last.trace, "token.refresh")
                   < First(last.trace, "videos.insert")
        /\ ~RefreshSucceeded =>
               AuthExpired(last.resp) /\ ~Called(last.trace, "videos.insert")
        /\ ~Truthy(last.current_user.doc.youtube_refresh_token) =>
               AuthExpired(last.resp) /\ ~Called(last.trace, "videos.insert")

(* what every such upload does, whatever is stored as refresh token: one  *)
(* refresh, before any provider insert, and 401 without an insert when    *)
(* the token endpoint or the users write fails                            *)
C2_RefreshPostedOnce ==
    (last.op = "upload" /\ ReachedVideo /\ WasExpired) =>
        /\ Count(last.trace, "token.refresh") = 1
        /\ Called(last.trace, "videos.insert") =>
               First(last.trace, "token.refresh")
                   < First(last.trace, "videos.insert")
        /\ ~RefreshSucceeded =>
               AuthExpired(last.resp) /\ ~Called(last.trace, "videos.insert")

(* the stored refresh token is None, the token endpoint answered 200 and  *)
(* the upload went on to the provider                                     *)
C2_NoRefreshTokenUploads ==
    /\ last.op = "upload" /\ ReachedVideo /\ WasExpired
    /\ last.current_user.doc.youtube_refresh_token = None
    /\ Called(last.trace, "videos.insert")
    /\ last.resp.status = 200

C2_Witness ==
    /\ last.op = "upload" /\ ReachedVideo /\ WasExpired
    /\ RefreshSucceeded
    /\ last.trace = << "videos.find_one", "token.refresh",
                       "users.update_one", "keywords.find_one",
                       "os.path.exists", "videos.insert",
                       "videos.update_one" >>

C2_WitnessRefreshFails ==
    /\ last.op = "upload" /\ ReachedVideo /\ WasExpired
    /\ ~RefreshSucceeded
    /\ AuthExpired(last.resp)

(* C3: an upload or upload-url request of a connected user naming no      *)
(* video of theirs answers 404 "Video not found" and then does nothing    *)
(* else.                                                                   *)
C3_NotFoundIs404 ==
    ( /\ last.op \in { "upload", "upload_url" }
      /\ last.args.body.valid
      /\ last.current_user.doc.youtube_connected
      /\ last.env.find_ok
      /\ ~ReachedVideo ) =>
        /\ last.resp.status = 404
        /\ last.resp.detail = "Video not found"
        /\ last.trace = << "videos.find_one" >>

(* C4: an upload whose media file is missing answers 404 "Video file not  *)
(* found", does not call the provider insert and leaves the video record. *)
MediaFileMissing ==
    /\ last.op = "upload" /\ ReachedVideo
    /\ WasExpired => RefreshSucceeded
    /\ VideoPath(videos[last.args.video_id].filename) \notin files

C4_FileNotFound ==
    /\ [](MediaFileMissing =>
            /\ last.resp = HttpError(404, "Video file not found")
            /\ ~Called(last.trace, "videos.insert"))
    /\ [][MediaFileMissing' => videos' = videos]_vars

(* C5: once the callback has stored the credential, no failure of the     *)
(* channel lookup makes it answer success=false.                          *)
C5_ChannelLookupNonFatal ==
    ( /\ last.op = "callback"
      /\ Called(last.trace, "users.update_one")
      /\ users[last.current_user.id].youtube_connected ) =>
        last.resp.success

(* C6: the upload fields of a video change only in an upload whose        *)
(* provider insert returned, and then hold the provider's id and the      *)
(* title, description and tags sent and returned; a provider error        *)
(* answers 500 and leaves the record; a stored external id is the id of   *)
(* the insert that wrote it.                                              *)
C6_UploadFieldsFromProvider ==
    /\ [][\A v \in VideoIds :
            UploadFields(v)' # UploadFields(v) =>
                /\ last'.op = "upload"
                /\ last'.args.video_id = v
                /\ last'.env.provider = "ok"
                /\ Called(last'.trace, "videos.insert")
                /\ last'.resp.status = 200
                /\ UploadFields(v)' =
                     << TRUE, last'.env.youtube_video_id, last'.t.store,
                        last'.sent.title, last'.sent.description,
                        last'.sent.tags >>
                /\ UploadFields(v)' =
                     << TRUE, last'.resp.youtube_video_id, last'.t.store,
                        last'.resp.youtube_title,
                        last'.resp.youtube_description,
                        last'.resp.youtube_tags >>]_vars
    /\ [][( /\ last'.op = "upload"
            /\ Called(last'.trace, "videos.insert")
            /\ last'.env.provider # "ok" ) =>
                /\ last'.resp.status = 500
                /\ (last'.env.provider = "http_error" =>
                        last'.resp.detail = "YouTube upload failed")
                /\ videos' = videos]_vars
    /\ [](\A v \in VideoIds :
            /\ videos[v].youtube_uploaded =>
                   videos[v].youtube_video_id \in YoutubeVideoIds
            /\ ~videos[v].youtube_uploaded =>
                   videos[v].youtube_video_id = None)
    /\ []((last.op = "upload" /\ last.resp.status = 200) =>
            videos[last.args.video_id].youtube_video_id
                = last.env.youtube_video_id)

(* an upload, after a redirect was attempted, stored the id the provider  *)
(* assigned to it, with the date of the first clock read of its $set and  *)
(* the updated_at of a later one                                          *)
C6_Witness ==
    /\ last.op = "upload" /\ last.resp.status = 200
    /\ last.env.youtube_video_id = "ytB"
    /\ videos[1].youtube_video_id = "ytB"
    /\ videos[1].youtube_upload_date = last.t.store
    /\ videos[1].updated_at = last.t.store_upd
    /\ videos[1].updated_at > videos[1].youtube_upload_date
    /\ videos[1].youtube_redirect_attempted

(* C7: status of a connected user with an expired token attempts at most  *)
(* one refresh; when that refresh fails it answers connected=false with   *)
(* an empty channel_title; status never writes the connected flag, the    *)
(* refresh token or the channel fields.                                   *)
StatusExpired ==
    /\ last.op = "status"
    /\ last.current_user.doc.youtube_connected
    /\ last.current_user.doc.youtube_token_expiry < last.t.check

C7_StatusDegradesReportOnly ==
    /\ [](StatusExpired =>
            /\ Count(last.trace, "token.refresh") <= 1
            /\ ( /\ Truthy(last.current_user.doc.youtube_refresh_token)
                 /\ ~RefreshSucceeded ) =>
                   /\ Count(last.trace, "token.refresh") = 1
                   /\ last.resp = [ connected |-> FALSE,
                                    channel_title |-> "" ])
    /\ [][last'.op = "status" =>
            \A u \in UserIds :
                /\ users'[u].youtube_connected = users[u].youtube_connected
                /\ users'[u].youtube_refresh_token
                       = users[u].youtube_refresh_token
                /\ users'[u].youtube_channel_title
                       = users[u].youtube_channel_title
                /\ users'[u].youtube_channel_id
                       = users[u].youtube_channel_id]_vars

C7_Witness ==
    /\ StatusExpired
    /\ Truthy(last.current_user.doc.youtube_refresh_token)
    /\ ~RefreshSucceeded
    /\ ~last.resp.connected
    /\ users[last.current_user.id].youtube_connected
    /\ users[last.current_user.id].youtube_channel_title = "My Channel"

(* C8 *)
NotConnectedCall ==
    /\ last.op \in { "upload", "upload_url" }
    /\ ~last.current_user.doc.youtube_connected

TagsSent == last.op = "upload" /\ Called(last.trace, "videos.insert")

KeywordsOfLast ==
    ResolveKeywords(keyword_sets, videos[last.args.video_id],
                    last.env.keywords_ok)

TagsConsistent ==
    /\ Len(last.sent.tags) <= TagLimit
    /\ last.resp.status = 200 =>
           /\ last.resp.youtube_tags = last.sent.tags
           /\ videos[last.args.video_id].youtube_tags = last.sent.tags

(* C9 as claimed: without caller tags the effective tags are the first 30 *)
(* keywords; with caller tags they are the first 30 caller tags; at most  *)
(* 30 are sent, stored and returned.                                      *)
C9_TagsAsClaimed ==
    TagsSent =>
        /\ ~last.args.body.tags_given =>
               last.sent.tags = Take(KeywordsOfLast, TagLimit)
        /\ last.args.body.tags_given =>
               last.sent.tags = Take(last.args.body.tags, TagLimit)
        /\ TagsConsistent

(* C9 amended: a caller's empty tag list counts as no tags. With no or    *)
(* empty caller tags the effective tags are the first 30 keywords; with a *)
(* non-empty caller tag list they are its first 30 entries; at most 30    *)
(* are sent, stored and returned.                                         *)
C9_EffectiveTags ==
    TagsSent =>
        /\ (~last.args.body.tags_given \/ last.args.body.tags = <<>>) =>
               last.sent.tags = Take(KeywordsOfLast, TagLimit)
        /\ (last.args.body.tags_given /\ last.args.body.tags # <<>>) =>
               last.sent.tags = Take(last.args.body.tags, TagLimit)
        /\ TagsConsistent

C9_Witness ==
    /\ TagsSent
    /\ last.args.body.tags_given
    /\ Len(last.args.body.tags) > TagLimit
    /\ Len(KeywordsOfLast) > TagLimit
    /\ last.resp.status = 200
    /\ Len(videos[last.args.video_id].youtube_tags) = TagLimit

(* C10: a keyword set stored as plain strings and the same set stored as  *)
(* objects with a "keyword" field resolve to the same list: the strings   *)
(* k1..kn, each once, in the stored order.                                *)
C10_ShapesNormalizeAlike ==
    last.op = "resolve" =>
        /\ last.keywords[1] = last.keywords[2]
        /\ Len(last.keywords[2]) = Len(keyword_sets["object"])
        /\ \A i \in 1..Len(keyword_sets["object"]) :
               last.keywords[2][i]
                   = PyStr(keyword_sets["object"][i].keyword)

C10_Witness ==
    /\ last.op = "resolve"
    /\ Len(last.keywords[2]) = 3
    /\ last.keywords[2][1].keyword = "k2"
    /\ last.keywords[2][2].keyword = "k1"
    /\ last.keywords[2][3].keyword = "k2"

(* C11 *)
NoKeywordsNoOverrides ==
    /\ last.op = "upload" /\ ReachedVideo /\ ~WasExpired
    /\ ~FileMissing(files, videos[last.args.video_id])
    /\ last.args.body = EmptyBody
    /\ LET id == videos[last.args.video_id].keywords_id
       IN  \/ id = None
           \/ id \notin DOMAIN keyword_sets
           \/ keyword_sets[id] = <<>>

(* C11 as claimed: an upload of a connected user with a valid token, for   *)
(* a video of theirs whose file exists, with no keywords and no title,    *)
(* description or tags from the caller, has the effective description     *)
(* "SEO optimized content" and the empty tag list.                        *)
C11_DescriptionAsClaimed ==
    NoKeywordsNoOverrides =>
        /\ last.sent.description = "SEO optimized content"
        /\ last.sent.tags = <<>>

(* C11 amended: in that case the effective description is the synthesized *)
(* sentence "Video analyzed with SEO keywords: SEO optimized content" and *)
(* the effective tags are the empty list, as sent to the provider and, on *)
(* success, as stored and returned.                                       *)
C11_DefaultDescription ==
    NoKeywordsNoOverrides =>
        /\ Called(last.trace, "videos.insert")
        /\ last.sent.description
               = "Video analyzed with SEO keywords: SEO optimized content"
        /\ last.sent.tags = <<>>
        /\ last.resp.status = 200 =>
               /\ last.resp.youtube_description = last.sent.description
               /\ last.resp.youtube_tags = <<>>
               /\ videos[last.args.video_id].youtube_description
                      = last.sent.description
               /\ videos[last.args.video_id].youtube_tags = <<>>

C11_Witness ==
    /\ NoKeywordsNoOverrides
    /\ videos[last.args.video_id].keywords_id = None
    /\ last.resp.status = 200
    /\ videos[last.args.video_id].youtube_description
           = "Video analyzed with SEO keywords: SEO optimized content"


(* C12 *)
RedirectCalls ==
    { "videos.find_one", "token.refresh", "users.update_one",
      "videos.update_one" }

RedirectServed ==
    /\ last.op = "upload_url" /\ ReachedVideo
    /\ WasExpired => RefreshSucceeded

(* C12: upload-url makes no call but the video lookup, the token refresh  *)
(* and the store writes of the refresh and of the redirect mark; it never *)
(* calls the provider insert and never changes the upload fields of a     *)
(* video; when it is served it answers the generic upload page URL with   *)
(* the caller's title, description and first 30 tags, also when the       *)
(* redirect mark could not be written.                                    *)
C12_RedirectOnlyMarks ==
    /\ [](last.op = "upload_url" =>
            /\ \A i \in 1..Len(last.trace) : last.trace[i] \in RedirectCalls
            /\ last.sent = NoInsert)
    /\ [][last'.op = "upload_url" =>
            \A v \in VideoIds : UploadFields(v)' = UploadFields(v)]_vars
    /\ [](RedirectServed =>
            /\ last.resp.status = 200
            /\ last.resp.redirectUrl = "https://www.youtube.com/upload"
            /\ last.args.body.title # Absent =>
                   last.resp.youtube_title = last.args.body.title
            /\ last.args.body.description # Absent =>
                   last.resp.youtube_description = last.args.body.description
            /\ last.resp.youtube_tags = Take(last.args.body.tags, TagLimit)
            /\ Len(last.resp.youtube_tags) <= TagLimit)

(* more than 30 tags from the caller, and the redirect mark not written *)
C12_Witness ==
    /\ RedirectServed
    /\ ~last.env.video_store_ok
    /\ ~videos[last.args.video_id].youtube_redirect_attempted
    /\ Len(last.args.body.tags) > TagLimit
    /\ Len(last.resp.youtube_tags) = TagLimit
    /\ last.resp.youtube_title = "Caller title"
    /\ last.resp.status = 200

(* C13 *)
KeywordsUnresolvable ==
    /\ last.op = "upload" /\ ReachedVideo /\ ~WasExpired
    /\ LET id == videos[last.args.video_id].keywords_id
       IN  /\ Truthy(id)
           /\ \/ ~last.env.keywords_ok
              \/ id \notin DOMAIN keyword_sets
              \/ /\ id \in DOMAIN keyword_sets
                 /\ ~AllStrs(keyword_sets[id])
                 /\ ~AllDictsWithKey(keyword_sets[id])

(* C13: an upload whose keyword set cannot be read, is missing, or is not *)
(* entirely plain strings nor entirely objects with a "keyword" field     *)
(* goes on with the empty keyword list: it reaches the file check and,    *)
(* when the file exists, the provider insert, with the description and    *)
(* tags that the empty keyword list gives.                                *)
C13_KeywordFailureNonFatal ==
    KeywordsUnresolvable =>
        /\ Called(last.trace, "os.path.exists")
        /\ ~FileMissing(files, videos[last.args.video_id]) =>
               /\ Called(last.trace, "videos.insert")
               /\ last.sent.description
                      = EffectiveDescription(Get(last.args.body.description),
                                             <<>>)
               /\ last.sent.tags = EffectiveTags(last.args.body, <<>>)

(* C14: status of a connected user whose token is expired and who has no *)
(* refresh token, or whose refresh fails, reports connected=false; status *)
(* never reports connected=true for an expired token that was not         *)
(* refreshed.                                                             *)
C14_ExpiredUnrefreshableNotConnected ==
    ( /\ StatusExpired
      /\ \/ ~Truthy(last.current_user.doc.youtube_refresh_token)
         \/ ~RefreshSucceeded ) =>
        ~last.resp.connected

(* C15 *)
StoredPair(u) ==
    << users[u].youtube_access_token, users[u].youtube_token_expiry >>

LastWrite == refresh_log.writes[Len(refresh_log.writes)]

(* C15: under every interleaving of the refreshes of concurrent upload,   *)
(* upload-url and status requests of one user, the stored access token    *)
(* and expiry change only together, in a refresh write; after any refresh *)
(* write they are the token and the lifetime of one token response, that  *)
(* of the last writer; and no step changes the stored refresh token,      *)
(* connected flag or channel fields.                                      *)
C15_RefreshPairFromOneResponse ==
    /\ [](refresh_log.writes # <<>> =>
            /\ LastWrite.token_info \in refresh_log.issued
            /\ StoredPair(1) =
                   << LastWrite.token_info.access_token,
                      LastWrite.t + LastWrite.token_info.expires_in >>)
    /\ [][\A u \in UserIds :
            /\ StoredPair(u)' # StoredPair(u) =>
                   refresh_log'.writes # refresh_log.writes
            /\ users'[u].youtube_refresh_token
                   = users[u].youtube_refresh_token
            /\ users'[u].youtube_connected = users[u].youtube_connected
            /\ users'[u].youtube_channel_title
                   = users[u].youtube_channel_title
            /\ users'[u].youtube_channel_id
                   = users[u].youtube_channel_id]_vars

(* an upload and a later status request both refreshed; the upload built  *)
(* its $set first and its write landed last: the stored pair is the       *)
(* upload's token with the expiry of its own, older clock read, and an    *)
(* updated_at read after that                                             *)
C15_Witness ==
    /\ Len(refresh_log.writes) = 2
    /\ refresh_log.writes[1].token_info.access_token = "at3"
    /\ refresh_log.writes[2].token_info.access_token = "at2"
    /\ refresh_log.writes[1].token_info.expires_in
           # refresh_log.writes[2].token_info.expires_in
    /\ refresh_log.writes[2].t < refresh_log.writes[1].t
    /\ inflight[refresh_log.writes[1].request].op = "status"
    /\ inflight[refresh_log.writes[2].request].op = "upload"
    /\ inflight[refresh_log.writes[2].request].pc = "done"
    /\ inflight[refresh_log.writes[2].request].status = 200
    /\ users[1].youtube_access_token = "at2"
    /\ refresh_log.writes[2].t < users[1].updated_at
    /\ users[1].youtube_refresh_token = "rt1"
    /\ users[1].youtube_channel_title = "My Channel"
    /\ videos[1].youtube_uploaded

(* C16: the title an upload sends to the provider is the caller's title   *)
(* when one is given, else the video's stored title when it has a         *)
(* non-empty one, else "Untitled Video"; it is never empty or missing,    *)
(* and on success it is the title stored and returned.                    *)
C16_TitleNeverEmpty ==
    TagsSent =>
        LET title  == Get(last.args.body.title)
            stored == videos[last.args.video_id].title
        IN  /\ Truthy(title) => last.sent.title = title
            /\ (~Truthy(title) /\ stored # Absent /\ Truthy(stored)) =>
                   last.sent.title = stored
            /\ (~Truthy(title) /\ (stored = Absent \/ ~Truthy(stored))) =>
                   last.sent.title = "Untitled Video"
            /\ Truthy(last.sent.title)
            /\ last.resp.status = 200 =>
                   /\ last.resp.youtube_title = last.sent.title
                   /\ videos[last.args.video_id].youtube_title
                          = last.sent.title

=============================================================================
